---- MODULE Spec2Model ----
(***************************************************************************)
(* Model of listenbrainz-playlist-uploader, src/src/main.rs.               *)
(*                                                                         *)
(* One run of `main` is a sequential process whose position is `pc`; the   *)
(* two batch functions (resolve_all_songs_for_mbids and                    *)
(* give_feedback_on_all_songs) start one task per item, all gated by one   *)
(* governor rate limiter, and the tasks interleave freely.  Every call to  *)
(* the remote service is answered by the environment (Ok or Err), and the  *)
(* calls that mutate remote state are logged in creates, deletes, inserts  *)
(* and feedback_calls.                                                     *)
(***************************************************************************)
EXTENDS Integers, Sequences, FiniteSets, TLC

(* ------------------------------ bounds -------------------------------- *)

\* Largest number of entries the M3U playlist file holds.
MaxFiles == 2

\* Largest track count the remote service reports for an existing playlist.
MaxTracks == 1

\* Stand-in for i32::MAX, the largest value of the suffix counter `i`.
IntMax == 4

IntMin == -IntMax - 1

(* --------------------------- input domains ---------------------------- *)

\* Values of the positional argument playlist_name.
PlaylistNames == {"X"}

\* Titles the existing playlists of the account may carry.
Titles == {"X", "x", "X_1", "X_2"}

\* Catalog identifiers (MBIDs) a lookup may answer with.
Ids == {"a", "b"}

DuplicateActions == {"None", "Overwrite", "Number", "Abort"}

\* args.feedback: None, or Some(kind).
FeedbackArgs == {"None", "Love"}

\* Duration::from_secs(5): the replenish interval of the quota, in seconds.
Period == 5

\* Quota::with_period allows a burst of one cell.
WithPeriodBurst == 1

\* A mis-built quota that lets two cells through at once.
QuotaBurstTwo == [replenish_1_per |-> Period, max_burst |-> 2]

\* Quota::with_period(Duration::from_secs(5)).
Quota == [replenish_1_per |-> Period, max_burst |-> WithPeriodBurst]

(* ------------------------------ state --------------------------------- *)

VARIABLES
    args,                   \* parsed command line
    pc,                     \* position of main
    status,                 \* "running", or how the process ended
    song_data,              \* tag records read from the files
    number_of_tagged_songs,
    tasks,                  \* the futures of the running batch
    results,                \* outputs of the batch, in completion order
    wait,                   \* rate limiter: seconds until the next cell conforms
    last_call_age,          \* seconds since a remote call of the batch began
    min_gap,                \* least time seen between two call starts of a batch
    progress,               \* position of the progress bar
    musicbrainz_ids,
    current_playlists,
    playlist_name,
    searched_playlist,      \* index into current_playlists, 0 for None
    p,                      \* the full response for the duplicate playlist
    range_start,            \* state of the iterator `1..`
    given_feedback,
    filtered_musicbrainz_ids,
    creates,                \* submit_playlist calls issued
    deletes,                \* delete_items_from_playlist calls issued
    inserts,                \* mass_add_to_playlist calls issued
    feedback_calls,         \* give_song_feedback_for_mbid calls issued
    branches                \* arms of the reconciliation match entered

argVars == <<args>>
fileVars == <<song_data, number_of_tagged_songs>>
batchVars == <<tasks, results, wait, last_call_age, min_gap, progress>>
reconVars == <<current_playlists, playlist_name, searched_playlist, p, range_start>>
fbVars == <<given_feedback, filtered_musicbrainz_ids>>
callVars == <<creates, deletes, inserts, feedback_calls, branches>>

vars == <<args, pc, status, song_data,
          number_of_tagged_songs, tasks, results, wait, last_call_age, min_gap,
          progress,
          musicbrainz_ids, current_playlists, playlist_name, searched_playlist,
          p, range_start, given_feedback, filtered_musicbrainz_ids,
          creates, deletes, inserts, feedback_calls, branches>>

(* ----------------------------- helpers -------------------------------- *)

\* No remote call of the running batch has begun yet.
NoCall == 0 - 1

NoPlaylist == [identifier |-> 0, number_of_tracks |-> 0]

\* Option<f64> returned by calculate_percentage; the value is kept as the
\* integer part of the percentage.
NoPercentage == [some |-> FALSE, val |-> 0]

calculate_percentage(numerator, denominator) ==
    IF denominator # 0
        THEN [some |-> TRUE, val |-> (numerator * 100) \div denominator]
        ELSE NoPercentage

\* format!("{}_{}", name, i)
FormatTitle(name, i) == name \o "_" \o ToString(i)

\* The order in which the account lists its playlists.
TitleOrder == <<"x", "X_2", "X", "X_1">>

\* The playlist lists get_current_playlists may answer with: any choice of
\* the titles, each playlist identified by its place in the account.
PlaylistLists ==
    {LET places == SelectSeq([k \in 1..Len(TitleOrder) |-> k],
                             LAMBDA k : TitleOrder[k] \in chosen)
     IN  [k \in 1..Len(places) |->
            [title |-> TitleOrder[places[k]], identifier |-> places[k]]] :
        chosen \in SUBSET Titles}

\* The subsequence of 1..n whose members are in S, ascending.
RECURSIVE AscendingSeq(_, _)
AscendingSeq(S, n) ==
    IF n = 0 THEN <<>>
    ELSE IF n \in S THEN Append(AscendingSeq(S, n - 1), n)
    ELSE AscendingSeq(S, n - 1)

\* A future that has not passed the rate limiter yet; `calls` counts the
\* remote calls it has begun.
NewTask(item) == [item |-> item, at |-> "until_ready", calls |-> 0]

\* A collection that returns as soon as one future has completed.
AnyDone == \E t \in DOMAIN tasks : tasks[t].at = "done"

\* FuturesUnordered yields None, and collect() returns, once every future
\* has completed.
AllDone == \A t \in DOMAIN tasks : tasks[t].at = "done"

\* The process ends: exit(code), a panic, or main returning.
Halt(how) == status' = how

Running(at) == status = "running" /\ pc = at

(* --------------------------- initial state ---------------------------- *)

Init ==
    /\ args \in [playlist_name : PlaylistNames,
                 public : BOOLEAN,
                 duplicate_action : DuplicateActions,
                 feedback : FeedbackArgs]
    /\ pc = "startup"
    /\ status = "running"
    /\ song_data = <<>>
    /\ number_of_tagged_songs = 0
    /\ tasks = <<>>
    /\ results = <<>>
    /\ wait = 0
    /\ last_call_age = NoCall
    /\ min_gap = Period
    /\ progress = 0
    /\ musicbrainz_ids = <<>>
    /\ current_playlists = <<>>
    /\ playlist_name = ""
    /\ searched_playlist = 0
    /\ p = NoPlaylist
    /\ range_start = 1
    /\ given_feedback = {}
    /\ filtered_musicbrainz_ids = <<>>
    /\ creates = <<>>
    /\ deletes = <<>>
    /\ inserts = <<>>
    /\ feedback_calls = <<>>
    /\ branches = <<>>

(* ------------------------- main, before the batch --------------------- *)

\* Lines 68-103: configuration, playlist file, token, get_current_user.
Startup ==
    /\ Running("startup")
    /\ \E ok \in BOOLEAN :
        IF ok
            THEN pc' = "load_files" /\ UNCHANGED status
            ELSE Halt("exit1") /\ UNCHANGED pc
    /\ UNCHANGED <<argVars, fileVars, batchVars, musicbrainz_ids, reconVars,
                   fbVars, callVars>>

\* Lines 105-130, all synchronous: load_file_paths (an unreadable playlist
\* file panics), the exit on an empty playlist, the files with readable
\* tags, the tagged/files percentage and the exit on zero tagged songs.
\* A run that goes on without any tagged song.
NoTaggedSongsIgnored(n) == FALSE

\* Line 127: number_of_tagged_songs == 0.
NoTaggedSongs(n) == n = 0

LoadPlaylist ==
    /\ Running("load_files")
    /\ \/ /\ Halt("panicked")
          /\ UNCHANGED <<pc, song_data, number_of_tagged_songs>>
       \/ \E number_of_files \in 0..MaxFiles :
            IF number_of_files = 0
                THEN /\ Halt("exit1")
                     /\ UNCHANGED <<pc, song_data, number_of_tagged_songs>>
                ELSE \E tagged \in SUBSET (1..number_of_files) :
                    LET data == AscendingSeq(tagged, number_of_files)
                        percentage ==
                            calculate_percentage(Len(data), number_of_files)
                    IN  /\ song_data' = data
                        /\ number_of_tagged_songs' = Len(data)
                        /\ pc' = IF percentage.some /\ ~NoTaggedSongs(Len(data))
                                     THEN "resolve" ELSE "load_tags"
                        /\ IF ~percentage.some
                               THEN Halt("panicked")
                               ELSE IF NoTaggedSongs(Len(data))
                                   THEN Halt("exit1")
                                   ELSE UNCHANGED status
    /\ UNCHANGED <<argVars, batchVars, musicbrainz_ids, reconVars, fbVars,
                   callVars>>

(* --------------------------- rate limiter ----------------------------- *)

\* governor's GCRA decision for one cell, with the theoretical arrival time
\* kept relative to the clock: the cell conforms when the arrival time is at
\* most (max_burst - 1) intervals ahead.
LimiterConforms(q) == wait <= q.replenish_1_per * (q.max_burst - 1)

\* The arrival time after a conforming cell: one interval later.
LimiterNext(q) == wait + q.replenish_1_per

\* limiter.until_ready().await returns for task t and its remote call
\* begins in the same poll.
UntilReady(t) ==
    /\ t \in DOMAIN tasks
    /\ tasks[t].at = "until_ready"
    /\ LimiterConforms(Quota)
    /\ wait' = LimiterNext(Quota)
    /\ tasks' = [tasks EXCEPT ![t].at = "calling", ![t].calls = @ + 1]
    /\ min_gap' = IF last_call_age = NoCall \/ last_call_age > min_gap
                      THEN min_gap ELSE last_call_age
    /\ last_call_age' = 0

\* A progress bar that is advanced for successful calls only.
IncOnSuccess(pos, out) == IF out = "Err" THEN pos ELSE pos + 1

\* pb.inc(1), whatever the call returned.
Inc(pos, out) == pos + 1

\* A collection that keeps the successful outputs only.
CollectOkOnly(rs, out) == IF out = "Err" THEN rs ELSE Append(rs, out)

\* futures.collect(): every output is pushed as its future completes.
Collect(rs, out) == Append(rs, out)

\* The remote call of task t returns `out`; the task counts one unit of
\* progress and yields its output to the collecting vector.
TaskReturns(t, out) ==
    /\ t \in DOMAIN tasks
    /\ tasks[t].at = "calling"
    /\ tasks' = [tasks EXCEPT ![t].at = "done"]
    /\ results' = Collect(results, out)
    /\ progress' = Inc(progress, out)

\* One second passes while a batch is being awaited.
Tick ==
    /\ status = "running"
    /\ pc \in {"resolving", "feedbacking"}
    /\ wait > 0 \/ (last_call_age # NoCall /\ last_call_age < Period)
    /\ wait' = IF wait > 0 THEN wait - 1 ELSE 0
    /\ last_call_age' = IF last_call_age # NoCall /\ last_call_age < Period
                            THEN last_call_age + 1 ELSE last_call_age
    /\ UNCHANGED <<argVars, pc, status, fileVars, tasks, results, min_gap,
                   progress, musicbrainz_ids, reconVars, fbVars, callVars>>

(* -------------------------- resolution batch -------------------------- *)

\* Lines 132-133 and 341-361: a fresh limiter, a progress bar and one
\* future per tag record.
ResolveStart ==
    /\ Running("resolve")
    /\ tasks' = [k \in 1..Len(song_data) |-> NewTask(song_data[k])]
    /\ results' = <<>>
    /\ wait' = 0
    /\ last_call_age' = NoCall
    /\ min_gap' = Period
    /\ progress' = 0
    /\ song_data' = <<>>
    /\ pc' = "resolving"
    /\ UNCHANGED <<argVars, status, number_of_tagged_songs, musicbrainz_ids,
                   reconVars, fbVars, callVars>>

\* Line 354.
ResolveUntilReady(t) ==
    /\ Running("resolving")
    /\ UntilReady(t)
    /\ UNCHANGED <<argVars, pc, status, fileVars, results, progress,
                   musicbrainz_ids, reconVars, fbVars, callVars>>

\* Lines 355-357: get_musicbrainz_id_for_audio_data answers Ok(id) or Err.
ResolveReturns(t) ==
    /\ Running("resolving")
    /\ \E out \in Ids \cup {"Err"} : TaskReturns(t, out)
    /\ UNCHANGED <<argVars, pc, status, fileVars, wait, last_call_age, min_gap,
                   musicbrainz_ids, reconVars, fbVars, callVars>>

\* A filter that lets the failed lookups through as entries of their own.
OkValuesWithPlaceholders(rs) == rs

\* The Ok values of a vector of results, in order.
OkValues(rs) == SelectSeq(rs, LAMBDA r : r # "Err")

\* The batch function returns: its futures, its result vector, its limiter
\* and its progress bar are dropped.
BatchLocalsDropped ==
    /\ tasks' = <<>>
    /\ results' = <<>>
    /\ wait' = 0
    /\ last_call_age' = NoCall
    /\ progress' = 0

\* Lines 363-375 and 135-141: all futures are done; the Ok values are kept
\* and the resolved/tagged percentage is computed.
ResolveCollect ==
    /\ Running("resolving")
    /\ AllDone
    /\ LET ids == OkValues(results)
           percentage == calculate_percentage(Len(ids), number_of_tagged_songs)
       IN  /\ musicbrainz_ids' = ids
           /\ IF percentage.some
                  THEN pc' = "confirm" /\ UNCHANGED status
                  ELSE Halt("panicked") /\ UNCHANGED pc
    /\ BatchLocalsDropped
    /\ UNCHANGED <<argVars, fileVars, min_gap, reconVars, fbVars, callVars>>

(* ----------------------- confirmation and lookup ---------------------- *)

\* Lines 143-159: without --no-confirm the user is asked; only Ok(false)
\* ends the run, an error of the prompt is logged and the run goes on.
Confirm ==
    /\ Running("confirm")
    /\ \E no_confirm \in BOOLEAN, answer \in {"Ok(true)", "Ok(false)", "Err"} :
        IF ~no_confirm /\ answer = "Ok(false)"
            THEN Halt("exit1") /\ UNCHANGED pc
            ELSE pc' = "get_playlists" /\ UNCHANGED status
    /\ UNCHANGED <<argVars, fileVars, batchVars, musicbrainz_ids, reconVars,
                   fbVars, callVars>>

\* A lookup that ignores the case of the titles.
FindPlaylistIgnoringCase(playlists, name) ==
    LET Fold(s) == IF s = "x" THEN "X" ELSE s
        hits == {k \in DOMAIN playlists : Fold(playlists[k].title) = Fold(name)}
    IN  IF hits = {} THEN 0 ELSE CHOOSE k \in hits : \A j \in hits : k <= j

\* current_playlists.iter().find(|p| p.title == name): the index of the
\* first playlist with that title, 0 for None.
FindPlaylist(playlists, name) ==
    LET hits == {k \in DOMAIN playlists : playlists[k].title = name}
    IN  IF hits = {} THEN 0 ELSE CHOOSE k \in hits : \A j \in hits : k <= j

\* Lines 161-177 and 252-253: the snapshot of the account's playlists and
\* the search for one titled like the target; with none found the match
\* takes its None arm.
GetCurrentPlaylists ==
    /\ Running("get_playlists")
    /\ \/ /\ Halt("exit1")
          /\ UNCHANGED <<pc, reconVars, branches>>
       \/ \E playlists \in PlaylistLists :
            LET found == FindPlaylist(playlists, args.playlist_name)
            IN  /\ current_playlists' = playlists
                /\ playlist_name' = args.playlist_name
                /\ searched_playlist' = found
                /\ pc' = IF found = 0 THEN "no_duplicate" ELSE "fetch_detail"
                /\ branches' = IF found = 0
                                  THEN Append(branches, "no_duplicate")
                                  ELSE branches
                /\ UNCHANGED <<status, p, range_start>>
    /\ UNCHANGED <<argVars, fileVars, batchVars, musicbrainz_ids, fbVars,
                   creates, deletes, inserts, feedback_calls>>

(* --------------------------- reconciliation --------------------------- *)

\* A match whose Abort arm is missing and falls into the None arm.
ArmOfWithoutAbort(action) ==
    CASE action = "None" -> "duplicate_none"
      [] action = "Overwrite" -> "overwrite"
      [] action = "Number" -> "number_loop"
      [] action = "Abort" -> "duplicate_none"

\* A match whose Overwrite arm creates a new playlist like the None arm.
ArmOfOverwriteAsNone(action) ==
    CASE action = "None" -> "duplicate_none"
      [] action = "Overwrite" -> "duplicate_none"
      [] action = "Number" -> "number_loop"
      [] action = "Abort" -> "abort"

\* Lines 194-250: the arm of the match on args.duplicate_action.
ArmOf(action) ==
    CASE action = "None" -> "duplicate_none"
      [] action = "Overwrite" -> "overwrite"
      [] action = "Number" -> "number_loop"
      [] action = "Abort" -> "abort"

\* Lines 178-194 and 246-249: the full response for the duplicate is
\* fetched, then the duplicate action selects its arm; Abort exits at once.
FetchDetail ==
    /\ Running("fetch_detail")
    /\ \/ /\ Halt("exit1")
          /\ UNCHANGED <<pc, p, branches>>
       \/ \E n \in 0..MaxTracks :
            /\ p' = [identifier |-> current_playlists[searched_playlist].identifier,
                     number_of_tracks |-> n]
            /\ branches' = Append(branches, ArmOf(args.duplicate_action))
            /\ pc' = ArmOf(args.duplicate_action)
            /\ IF ArmOf(args.duplicate_action) = "abort"
                   THEN Halt("exit1")
                   ELSE UNCHANGED status
    /\ UNCHANGED <<argVars, fileVars, batchVars, musicbrainz_ids,
                   current_playlists, playlist_name, searched_playlist,
                   range_start, fbVars, creates, deletes, inserts,
                   feedback_calls>>

\* The match of lines 177-256 is over: the snapshot of the playlists is not
\* read again and is dropped from the state.
ReconciliationEnds ==
    /\ current_playlists' = <<>>
    /\ UNCHANGED <<playlist_name, searched_playlist, p, range_start>>

\* An error arm that ends the run when the playlist could not be created.
AfterCreateFatal(ok) == IF ok THEN "feedback" ELSE "exit(1)"

\* Lines 295-302: both arms of the match only log.
AfterCreate(ok) == "feedback"

\* Lines 288-303, called at lines 197, 244 and 254: one submit_playlist
\* call; its failure is logged and the run goes on to the feedback.
submit_new_playlist ==
    /\ status = "running"
    /\ pc \in {"no_duplicate", "duplicate_none", "number_done"}
    /\ \E ok \in BOOLEAN :
        /\ creates' = Append(creates, [name |-> playlist_name,
                                       ids |-> musicbrainz_ids,
                                       public |-> args.public,
                                       ok |-> ok])
        /\ IF AfterCreate(ok) = "exit(1)"
               THEN Halt("exit1") /\ UNCHANGED pc
               ELSE pc' = AfterCreate(ok) /\ UNCHANGED status
    /\ ReconciliationEnds
    /\ UNCHANGED <<argVars, fileVars, batchVars, musicbrainz_ids,
                   fbVars, deletes, inserts, feedback_calls, branches>>

\* A test that sends the delete call for an empty playlist too.
DeleteAlways(number_of_tracks) == TRUE

\* Line 200: only a playlist that has tracks is emptied.
DeleteNeeded(number_of_tracks) == number_of_tracks > 0

\* An error arm that logs the failed deletion and goes on to the insertion.
AfterDeleteIgnoringError(ok) == "overwrite_insert"

\* Lines 208-217: where the run continues after the delete call.
AfterDelete(ok) == IF ok THEN "overwrite_insert" ELSE "exit(1)"

\* Lines 199-220: a playlist with tracks is emptied by one delete call
\* from index 0; a failed call ends the run.
OverwriteDelete ==
    /\ Running("overwrite")
    /\ IF DeleteNeeded(p.number_of_tracks)
           THEN \E ok \in BOOLEAN :
                /\ deletes' = Append(deletes, [playlist |-> p.identifier,
                                               index |-> 0,
                                               count |-> p.number_of_tracks + 1,
                                               ok |-> ok])
                /\ IF AfterDelete(ok) = "exit(1)"
                       THEN Halt("exit1") /\ UNCHANGED pc
                       ELSE pc' = AfterDelete(ok) /\ UNCHANGED status
           ELSE /\ pc' = "overwrite_insert"
                /\ UNCHANGED <<status, deletes>>
    /\ UNCHANGED <<argVars, fileVars, batchVars, musicbrainz_ids, reconVars,
                   fbVars, creates, inserts, feedback_calls, branches>>

\* An Overwrite arm that goes on into the arm creating a new playlist.
AfterInsertFallsThrough(ok) == IF ok THEN "duplicate_none" ELSE "exit(1)"

\* Lines 221-231: where the run continues after the insert call.
AfterInsert(ok) == IF ok THEN "feedback" ELSE "exit(1)"

\* Lines 221-231: the resolved ids are added to the existing playlist; a
\* failed call ends the run.
OverwriteInsert ==
    /\ Running("overwrite_insert")
    /\ \E ok \in BOOLEAN :
        /\ inserts' = Append(inserts, [playlist |-> p.identifier,
                                       ids |-> musicbrainz_ids,
                                       ok |-> ok])
        /\ IF AfterInsert(ok) = "exit(1)"
               THEN Halt("exit1") /\ UNCHANGED <<pc, reconVars>>
               ELSE /\ pc' = AfterInsert(ok)
                    /\ UNCHANGED status
                    /\ ReconciliationEnds
    /\ UNCHANGED <<argVars, fileVars, batchVars, musicbrainz_ids,
                   fbVars, creates, deletes, feedback_calls, branches>>

\* Lines 234-243: one turn of `for i in 1..`.  The iterator yields its
\* start and steps it; stepping past the largest value panics in a build
\* with overflow checks and wraps around otherwise.  The body keeps a
\* title that collides and takes any other as the playlist name; nothing
\* leaves the loop.
NumberLoop ==
    /\ Running("number_loop")
    /\ \E overflow_checks \in BOOLEAN :
       IF range_start = IntMax /\ overflow_checks
           THEN /\ Halt("panicked")
                /\ UNCHANGED <<pc, playlist_name, range_start>>
           ELSE LET i == range_start
                    prospective_title == FormatTitle(args.playlist_name, i)
                IN  /\ range_start' = IF i = IntMax THEN IntMin ELSE i + 1
                    /\ playlist_name' =
                          IF \E k \in DOMAIN current_playlists :
                                current_playlists[k].title = prospective_title
                              THEN playlist_name
                              ELSE prospective_title
                    /\ UNCHANGED <<pc, status>>
    /\ UNCHANGED <<argVars, fileVars, batchVars, musicbrainz_ids,
                   current_playlists, searched_playlist, p, fbVars, callVars>>

(* ------------------------------ feedback ------------------------------ *)

\* Lines 258-283 and 311-329: without --feedback main returns.  Otherwise
\* the ids that already carry the feedback are fetched (a failure panics)
\* and filtered out, the filtered/total percentage is unwrapped, an empty
\* rest exits with code 0, and one future per remaining id is started behind
\* a fresh limiter.  A run that ends after the filter ends at
\* "feedback_filtered".
\* A filter that keeps every id.
NeedsFeedbackAlways(given, i) == TRUE

\* Line 266: the ids that do not carry the feedback yet are kept.
NeedsFeedback(given, i) == i \notin given

FeedbackMatch ==
    /\ Running("feedback")
    /\ IF args.feedback = "None"
           THEN /\ Halt("returned")
                /\ UNCHANGED <<pc, batchVars, fbVars>>
           ELSE \/ /\ Halt("panicked")
                   /\ UNCHANGED <<pc, batchVars, fbVars>>
                \/ \E given \in SUBSET Ids :
                     LET filtered == SelectSeq(musicbrainz_ids,
                                               LAMBDA i : NeedsFeedback(given, i))
                         filtered_len == Len(filtered)
                         total_len == Len(musicbrainz_ids)
                         percentage == calculate_percentage(filtered_len, total_len)
                     IN  /\ given_feedback' = given
                         /\ filtered_musicbrainz_ids' = filtered
                         /\ IF ~percentage.some
                                THEN /\ Halt("panicked")
                                     /\ pc' = "feedback_filtered"
                                     /\ UNCHANGED batchVars
                                ELSE IF filtered_len = 0
                                    THEN /\ Halt("exit0")
                                         /\ pc' = "feedback_filtered"
                                         /\ UNCHANGED batchVars
                                    ELSE /\ tasks' = [k \in 1..filtered_len |->
                                                        NewTask(filtered[k])]
                                         /\ results' = <<>>
                                         /\ wait' = 0
                                         /\ last_call_age' = NoCall
                                         /\ min_gap' = Period
                                         /\ progress' = 0
                                         /\ pc' = "feedbacking"
                                         /\ UNCHANGED status
    /\ UNCHANGED <<argVars, fileVars, musicbrainz_ids, reconVars, callVars>>

\* Lines 322-323: the limiter admits the task and its
\* give_song_feedback_for_mbid call begins.
FeedbackUntilReady(t) ==
    /\ Running("feedbacking")
    /\ UntilReady(t)
    /\ feedback_calls' = Append(feedback_calls, tasks[t].item)
    /\ UNCHANGED <<argVars, pc, status, fileVars, results, progress,
                   musicbrainz_ids, reconVars, fbVars, creates, deletes,
                   inserts, branches>>

\* Lines 323-325: the call answers Ok(()) or Err.
FeedbackReturns(t) ==
    /\ Running("feedbacking")
    /\ \E out \in {"Ok", "Err"} : TaskReturns(t, out)
    /\ UNCHANGED <<argVars, pc, status, fileVars, wait, last_call_age, min_gap,
                   musicbrainz_ids, reconVars, fbVars, callVars>>

\* Lines 331-339 and 285-286: all futures are done, the errors are logged
\* and main returns.
FeedbackCollect ==
    /\ Running("feedbacking")
    /\ AllDone
    /\ BatchLocalsDropped
    /\ Halt("returned")
    /\ UNCHANGED <<argVars, pc, fileVars, min_gap, musicbrainz_ids, reconVars,
                   fbVars, callVars>>

(* --------------------------- specification ---------------------------- *)

\* No batch has more items than the playlist has files.
TaskIds == 1..MaxFiles

Next ==
    \/ Startup
    \/ LoadPlaylist
    \/ ResolveStart
    \/ \E t \in TaskIds : ResolveUntilReady(t)
    \/ \E t \in TaskIds : ResolveReturns(t)
    \/ ResolveCollect
    \/ Tick
    \/ Confirm
    \/ GetCurrentPlaylists
    \/ FetchDetail
    \/ submit_new_playlist
    \/ OverwriteDelete
    \/ OverwriteInsert
    \/ NumberLoop
    \/ FeedbackMatch
    \/ \E t \in TaskIds : FeedbackUntilReady(t)
    \/ \E t \in TaskIds : FeedbackReturns(t)
    \/ FeedbackCollect

Spec == Init /\ [][Next]_vars

\* main is one task on the runtime: whenever it can take a step it
\* eventually does, and a timer or an answer that is due arrives.
FairSpec == Spec /\ WF_vars(Next)

(* ------------------------------ claims -------------------------------- *)

\* The snapshot of the playlists has been fetched and is still held.
SnapshotLive ==
    pc \in {"no_duplicate", "fetch_detail", "duplicate_none", "overwrite",
            "overwrite_insert", "number_loop", "abort"}

\* The run has fetched the snapshot and searched it for the target name.
ReachedReconciliation ==
    SnapshotLive \/ pc \in {"feedback", "feedback_filtered", "feedbacking"}

\* resolve_all_songs_for_mbids has returned.
ResolutionReturned ==
    pc \notin {"startup", "load_files", "load_tags", "resolve", "resolving"}

TitleTaken(name) ==
    \E k \in DOMAIN current_playlists : current_playlists[k].title = name

NoPlaylistMutation == creates = <<>> /\ deletes = <<>> /\ inserts = <<>>

\* The smallest i >= 1 for which "{target}_{i}" is no title of the snapshot.
SmallestFreeSuffix ==
    CHOOSE i \in 1..(Cardinality(Titles) + 1) :
        /\ ~TitleTaken(FormatTitle(args.playlist_name, i))
        /\ \A j \in 1..(i - 1) : TitleTaken(FormatTitle(args.playlist_name, j))

\* C1: under the Number policy with a duplicate found, the name selected for
\* the new playlist is "{target}_{i}" for the smallest i >= 1 that collides
\* with no title of the snapshot: while the search runs the selected name is
\* the target (nothing selected yet) or that name and no other, and the
\* playlist is created under the selected name.
C1_NumberSelectsSmallestFreeSuffix ==
    branches = <<"number_loop">> =>
        /\ SnapshotLive =>
              playlist_name \in
                  {args.playlist_name,
                   FormatTitle(args.playlist_name, SmallestFreeSuffix)}
        /\ \A k \in DOMAIN creates : creates[k].name = playlist_name

\* C2: under the Number policy with a duplicate found, the suffix search is
\* eventually left and the createPlaylist call is issued.
C2_NumberSearchTerminates ==
    (status = "running" /\ pc = "number_loop") ~> (creates # <<>>)

\* C3: when the resolution stage returns zero ids the run is fatal: no
\* createPlaylist, deleteRange, insertTracks or submitFeedback call is issued
\* and the run does not end successfully.
C3_ZeroResolvedIsFatal ==
    (ResolutionReturned /\ musicbrainz_ids = <<>>) =>
        /\ NoPlaylistMutation
        /\ feedback_calls = <<>>
        /\ status \notin {"returned", "exit0"}

\* C4: within one batch no two remote calls begin less than one period
\* apart, and the limiter never holds more than one period of credit ahead.
C4_CallsOnePeriodApart == min_gap >= Period /\ wait <= Period

\* C4 witness: a second call of a batch has just begun while the first one
\* is still in flight.
C4_SecondCallBegun ==
    /\ pc = "feedbacking"
    /\ last_call_age = 0
    /\ Cardinality({t \in DOMAIN tasks : tasks[t].at = "calling"}) >= 2

\* The arm the pair (duplicate found?, policy) selects.
ExpectedBranch(found, action) ==
    IF ~found THEN "no_duplicate"
    ELSE CASE action = "None" -> "duplicate_none"
           [] action = "Overwrite" -> "overwrite"
           [] action = "Number" -> "number_loop"
           [] action = "Abort" -> "abort"

\* C5 as stated: every run that reaches reconciliation applies exactly one
\* branch, the one (duplicate found?, policy) selects; a run that has ended,
\* or has passed the fetch of the duplicate's details, has applied one.
C5_ExactlyOneBranchPerRun ==
    (ReachedReconciliation /\ (status # "running" \/ pc # "fetch_detail")) =>
        /\ Len(branches) = 1
        /\ branches[1] = ExpectedBranch(searched_playlist # 0, args.duplicate_action)

\* C5 as amended: a run that reaches reconciliation applies at most one
\* branch; it has applied none only while, or because, the fetch of the
\* duplicate's details has not succeeded, and then it has mutated nothing;
\* the branch applied is the one (an existing title equals the target?,
\* policy) selects.
C5_OneBranchUnlessDetailFetchFails ==
    /\ ~ReachedReconciliation => branches = <<>>
    /\ SnapshotLive => (searched_playlist # 0 <=> TitleTaken(args.playlist_name))
    /\ ReachedReconciliation =>
          \/ /\ pc = "fetch_detail"
             /\ searched_playlist # 0
             /\ branches = <<>>
             /\ NoPlaylistMutation
          \/ /\ Len(branches) = 1
             /\ branches[1] =
                   ExpectedBranch(searched_playlist # 0, args.duplicate_action)

\* C5 witness: a duplicate was found under the None policy, the arm was
\* applied and the run has gone on.
C5_BranchApplied ==
    /\ pc = "feedback"
    /\ searched_playlist # 0
    /\ branches = <<"duplicate_none">>
    /\ Len(creates) = 1

\* C6: when no title of the snapshot equals the target exactly, whatever the
\* policy, the run takes the create-new arm, and once it has left that arm
\* it has issued exactly one createPlaylist call, with the target name, the
\* resolved ids and the public flag, and no deleteRange or insertTracks call.
C6_NoDuplicateAlwaysCreates ==
    /\ (SnapshotLive /\ ~TitleTaken(args.playlist_name)) =>
          /\ pc = "no_duplicate"
          /\ searched_playlist = 0
          /\ NoPlaylistMutation
    /\ (ReachedReconciliation /\ searched_playlist = 0 /\ pc # "no_duplicate") =>
          /\ Len(creates) = 1
          /\ creates[1].name = args.playlist_name
          /\ creates[1].ids = musicbrainz_ids
          /\ creates[1].public = args.public
          /\ deletes = <<>>
          /\ inserts = <<>>

\* C6 witness: no duplicate under the Overwrite policy, and the playlist was
\* created.
C6_CreatedUnderOverwritePolicy ==
    /\ pc = "feedback"
    /\ searched_playlist = 0
    /\ args.duplicate_action = "Overwrite"
    /\ Len(creates) = 1
    /\ creates[1].ok

\* C7: under Overwrite with a duplicate of n > 0 tracks there is exactly one
\* deleteRange call, on that playlist, from index 0 with count n, and
\* insertTracks with the resolved ids comes only after it succeeded.
C7_OverwriteDeletesTrackCount ==
    (branches = <<"overwrite">> /\ p.number_of_tracks > 0) =>
        /\ Len(deletes) <= 1
        /\ \A k \in DOMAIN deletes :
              /\ deletes[k].playlist = p.identifier
              /\ deletes[k].index = 0
              /\ deletes[k].count = p.number_of_tracks
        /\ inserts # <<>> =>
              /\ Len(deletes) = 1
              /\ deletes[1].ok
              /\ inserts[1].ids = musicbrainz_ids

\* The Overwrite arm is past its insertTracks call.
InsertIssued ==
    \/ pc \in {"feedback", "feedback_filtered", "feedbacking"}
    \/ pc = "overwrite_insert" /\ status = "exit1"

\* C8: under Overwrite with a duplicate of 0 tracks no deleteRange call is
\* issued, and the run goes straight to exactly one insertTracks call on the
\* existing playlist with the resolved ids.
C8_OverwriteEmptySkipsDelete ==
    (branches = <<"overwrite">> /\ p.number_of_tracks = 0) =>
        /\ deletes = <<>>
        /\ creates = <<>>
        /\ Len(inserts) = (IF InsertIssued THEN 1 ELSE 0)
        /\ SnapshotLive =>
              p.identifier = current_playlists[searched_playlist].identifier
        /\ \A k \in DOMAIN inserts :
              /\ inserts[k].playlist = p.identifier
              /\ inserts[k].ids = musicbrainz_ids

\* C8 witness: the empty duplicate received the ids without any delete.
C8_InsertedIntoEmptyPlaylist ==
    /\ branches = <<"overwrite">>
    /\ p.number_of_tracks = 0
    /\ pc = "feedback"
    /\ Len(inserts) = 1
    /\ inserts[1].ok

\* C9: under Overwrite a failed deleteRange or insertTracks call ends the
\* run in failure; createPlaylist is never issued, after a failed delete no
\* insertTracks is issued, and no feedback follows.
C9_OverwriteFailureIsFatal ==
    branches = <<"overwrite">> =>
        /\ creates = <<>>
        /\ (\E k \in DOMAIN deletes : ~deletes[k].ok) =>
              /\ status = "exit1"
              /\ inserts = <<>>
              /\ feedback_calls = <<>>
        /\ (\E k \in DOMAIN inserts : ~inserts[k].ok) =>
              /\ status = "exit1"
              /\ feedback_calls = <<>>

\* C9 witness: the delete call failed and the run ended.
C9_DeleteFailed ==
    /\ branches = <<"overwrite">>
    /\ Len(deletes) = 1
    /\ ~deletes[1].ok
    /\ status = "exit1"

\* C10: under the Abort policy with a duplicate found the run issues no
\* createPlaylist, deleteRange, insertTracks or submitFeedback call and ends
\* with exit code 1 (it is still fetching the duplicate's details otherwise).
C10_AbortMutatesNothing ==
    (ReachedReconciliation /\ searched_playlist # 0
        /\ args.duplicate_action = "Abort") =>
        /\ NoPlaylistMutation
        /\ feedback_calls = <<>>
        /\ \/ status = "exit1"
           \/ status = "running" /\ pc = "fetch_detail"

\* C10 witness: the Abort arm was taken.
C10_Aborted ==
    /\ branches = <<"abort">>
    /\ pc = "abort"
    /\ status = "exit1"
    /\ musicbrainz_ids # <<>>

(* ------------------------------ batches ------------------------------- *)

\* The batch function that is being awaited returns in this step.
BatchReturns ==
    /\ pc \in {"resolving", "feedbacking"}
    /\ pc' # pc \/ status' # status

\* The number of inputs the running batch was started with.
BatchInputs ==
    IF pc = "resolving" THEN number_of_tagged_songs
    ELSE Len(filtered_musicbrainz_ids)

Count(seq, x) == Cardinality({k \in DOMAIN seq : seq[k] = x})

Successes(rs) == SelectSeq(rs, LAMBDA r : r # "Err")

Failures(rs) == SelectSeq(rs, LAMBDA r : r = "Err")

\* C11: in every batch of n items each item's remote operation is invoked
\* exactly once: a batch has one task per input, no task has begun more than
\* one call, a task has begun none only while it waits for the limiter, and
\* the batch returns only when every task has made its one call and that
\* call has completed.
C11_EveryItemCalledOnce ==
    /\ [](\A t \in DOMAIN tasks :
            /\ tasks[t].calls <= 1
            /\ tasks[t].calls = 0 <=> tasks[t].at = "until_ready")
    /\ []((status = "running" /\ pc \in {"resolving", "feedbacking"}) =>
            Len(tasks) = BatchInputs)
    /\ [][BatchReturns =>
            \A t \in DOMAIN tasks :
                tasks[t].calls = 1 /\ tasks[t].at = "done"]_vars

\* C11 witness: a resolution batch of two items has completed both calls,
\* one of them with a failure.
C11_BothCallsCompleted ==
    /\ pc = "resolving"
    /\ Len(tasks) = 2
    /\ \A t \in DOMAIN tasks : tasks[t].at = "done" /\ tasks[t].calls = 1
    /\ Count(results, "Err") = 1

\* C12: when a batch returns, the collected results split into successes and
\* failures whose numbers add up to the number of inputs; for the resolution
\* batch the ids handed back and the failures add up to the tag records.
C12_OutcomesAddUpToInputs ==
    [][BatchReturns =>
        /\ Len(Successes(results)) + Len(Failures(results)) = BatchInputs
        /\ pc = "resolving" =>
              Len(musicbrainz_ids') + Len(Failures(results))
                  = number_of_tagged_songs]_vars

\* C12 witness: a feedback batch of two items is complete with one success
\* and one failure collected.
C12_OneOkOneErrCollected ==
    /\ pc = "feedbacking"
    /\ AllDone
    /\ Len(filtered_musicbrainz_ids) = 2
    /\ Count(results, "Ok") = 1
    /\ Count(results, "Err") = 1

\* C13: when the resolution of n tag records returns with k < n failed
\* lookups, the ids handed back are exactly the n - k ids the successful
\* lookups answered with, as a multiset and without any entry for a failure,
\* and the run goes on to the confirmation.
C13_ResolutionKeepsSuccessesOnly ==
    [][(BatchReturns /\ pc = "resolving"
            /\ Len(Failures(results)) < number_of_tagged_songs) =>
        /\ Len(musicbrainz_ids')
              = number_of_tagged_songs - Len(Failures(results))
        /\ \A i \in Ids : Count(musicbrainz_ids', i) = Count(results, i)
        /\ Count(musicbrainz_ids', "Err") = 0
        /\ status' = "running"
        /\ pc' = "confirm"]_vars

\* C13 witness: two tag records, one lookup failed, one id handed back and
\* the run is at the confirmation.
C13_OneOfTwoResolved ==
    /\ pc = "confirm"
    /\ status = "running"
    /\ number_of_tagged_songs = 2
    /\ Len(musicbrainz_ids) = 1

(* ------------------------------ feedback ------------------------------ *)

\* C14: the submitFeedback calls go to exactly the resolved ids that do not
\* carry the requested feedback yet: no call goes to an id that is already
\* recorded or was never resolved, no resolved entry gets more than one
\* call, and when the stage has returned every such entry has got its call,
\* whichever calls failed.
C14_FeedbackForFilteredOnly ==
    /\ \A k \in DOMAIN feedback_calls : feedback_calls[k] \notin given_feedback
    /\ \A i \in Ids : Count(feedback_calls, i) <= Count(musicbrainz_ids, i)
    /\ (pc = "feedbacking" /\ status = "returned") =>
          \A i \in Ids :
              Count(feedback_calls, i) =
                  (IF i \in given_feedback THEN 0
                   ELSE Count(musicbrainz_ids, i))

\* C14 witness: of the resolved ids a and b, b carried the feedback already;
\* the stage has returned after one call, for a.
C14_SubmittedForTheRest ==
    /\ pc = "feedbacking"
    /\ status = "returned"
    /\ Count(musicbrainz_ids, "a") = 1
    /\ Count(musicbrainz_ids, "b") = 1
    /\ given_feedback = {"b"}
    /\ feedback_calls = <<"a">>

\* C15: whenever the ids left by the filter are none, the feedback stage
\* issues no submitFeedback call and the run ends without a failure.
C15_EmptyFilterIsNoOpNotError ==
    (pc = "feedback_filtered" /\ filtered_musicbrainz_ids = <<>>) =>
        /\ feedback_calls = <<>>
        /\ status \in {"exit0", "returned"}

\* C16: a playlist without any tag record ends the run with the fatal exit
\* for "no tagged songs" before any lookup is started, and the run has issued
\* no createPlaylist, deleteRange, insertTracks or submitFeedback call.
C16_NoTaggedSongsIsFatal ==
    (pc \notin {"startup", "load_files"} /\ number_of_tagged_songs = 0) =>
        /\ pc = "load_tags"
        /\ status = "exit1"
        /\ tasks = <<>>
        /\ results = <<>>
        /\ musicbrainz_ids = <<>>
        /\ NoPlaylistMutation
        /\ feedback_calls = <<>>

\* C16 witness: the playlist had files, none of them with tags, and the run
\* has ended.
C16_ExitedWithoutTags ==
    /\ pc = "load_tags"
    /\ status = "exit1"
    /\ number_of_tagged_songs = 0
    /\ song_data = <<>>

\* C18: no run ends by a panic at one of the percentage computations: the
\* tagged/files one (a run ended at "load_tags"), the resolved/tagged one
\* (ended at "resolving") and the filtered/resolved one (ended at
\* "feedback_filtered").
C18_NoPercentagePanic ==
    ~(status = "panicked"
        /\ pc \in {"load_tags", "resolving", "feedback_filtered"})

\* C17: every task of a batch goes from waiting for the limiter to its call
\* to done, in that order and one step at a time; it leaves the wait only
\* when the limiter holds no outstanding credit, and that step starts its one
\* call; the progress position advances by one exactly when a call returns,
\* with Ok or with Err, so that it counts the tasks done and equals the
\* number of inputs when the batch returns.
C17_PermitThenCallThenProgress ==
    /\ []((status = "running" /\ pc \in {"resolving", "feedbacking"}) =>
            progress = Cardinality({t \in DOMAIN tasks : tasks[t].at = "done"}))
    /\ [][\A t \in DOMAIN tasks \cap DOMAIN tasks' :
            /\ tasks'[t].at # tasks[t].at =>
                  /\ <<tasks[t].at, tasks'[t].at>> \in
                        {<<"until_ready", "calling">>, <<"calling", "done">>}
                  /\ \A u \in (DOMAIN tasks \cap DOMAIN tasks') \ {t} :
                        tasks'[u] = tasks[u]
            /\ (tasks[t].at = "until_ready" /\ tasks'[t].at = "calling") =>
                  /\ wait = 0
                  /\ tasks'[t].calls = tasks[t].calls + 1
                  /\ progress' = progress
            /\ (tasks[t].at = "calling" /\ tasks'[t].at = "done") =>
                  /\ Len(results') = Len(results) + 1
                  /\ progress' = progress + 1]_vars
    /\ [][BatchReturns => progress = BatchInputs]_vars

\* C17 witness: both lookups of a batch failed and the progress bar stands
\* at two.
C17_ProgressCountsFailures ==
    /\ pc = "resolving"
    /\ Count(results, "Err") = 2
    /\ progress = 2
    /\ wait > 0

(* ------------------------ order of the mutations ---------------------- *)

\* C19: a submitFeedback call is issued only when the reconciliation branch
\* is over: the run is in the feedback batch, it has applied one branch other
\* than Abort, every deleteRange and insertTracks call it made succeeded, and
\* from the first submitFeedback call on no createPlaylist, deleteRange or
\* insertTracks call follows.  A createPlaylist call, failed or not, leaves
\* the run going, at the entry of the feedback stage.
C19_FeedbackAfterReconciliation ==
    /\ [](feedback_calls # <<>> =>
            /\ pc = "feedbacking"
            /\ Len(branches) = 1
            /\ branches[1] # "abort"
            /\ \A k \in DOMAIN deletes : deletes[k].ok
            /\ \A k \in DOMAIN inserts : inserts[k].ok
            /\ creates # <<>> \/ inserts # <<>>)
    /\ [][feedback_calls' # <<>> =>
            UNCHANGED <<creates, deletes, inserts, branches>>]_vars
    /\ [][creates' # creates =>
            status' = "running" /\ pc' = "feedback"]_vars

\* C19 witness: the createPlaylist call failed and a submitFeedback call
\* was issued after it.
C19_FeedbackAfterFailedCreate ==
    /\ Len(creates) = 1
    /\ ~creates[1].ok
    /\ feedback_calls # <<>>

\* C20: a run issues at most one createPlaylist call, and never together
\* with a deleteRange or insertTracks call; otherwise it issues at most one
\* deleteRange call and at most one insertTracks call, both on the duplicate
\* found, and no deleteRange call after the insertTracks call.
C20_OneKindOfMutationPerRun ==
    /\ [](/\ Len(creates) <= 1
          /\ Len(deletes) <= 1
          /\ Len(inserts) <= 1
          /\ creates # <<>> => (deletes = <<>> /\ inserts = <<>>)
          /\ \A k \in DOMAIN deletes : deletes[k].playlist = p.identifier
          /\ \A k \in DOMAIN inserts : inserts[k].playlist = p.identifier
          /\ (deletes # <<>> \/ inserts # <<>>) =>
                (searched_playlist # 0 /\ p.identifier # 0))
    /\ [][inserts # <<>> => deletes' = deletes]_vars

\* C20 witness: the duplicate was emptied by one delete call and filled by
\* one insert call, and nothing was created.
C20_DeletedThenInserted ==
    /\ Len(deletes) = 1
    /\ Len(inserts) = 1
    /\ inserts[1].ok
    /\ creates = <<>>
    /\ pc = "feedbacking"

====
